---- MODULE Spec2Model ----
(***************************************************************************)
(* Model of the quest table codec of dt_quest.py (class QuestDTDecompiler):*)
(* the text transcoder (encode_sjis_with_null, read_cstring_sjis and the   *)
(* substitution table), the encoder compile_to_dt and the decoder          *)
(* parse_dt_file.                                                          *)
(*                                                                         *)
(* Text is a sequence of Unicode code points, a byte string a sequence of  *)
(* numbers 0..255.  Python offsets are 0-based: the byte at offset o of a  *)
(* buffer data is data[o + 1].                                             *)
(***************************************************************************)
EXTENDS Integers, Sequences, FiniteSets, TLC

ENTRY_COUNT == 80
ENTRY_SIZE == 28

\* Bounds of the model.
MaxFrags == 3
MaxProg == 2
MaxCompiles == 2

\* Python's None, as returned by get_replacement_for_extended_char.
None == <<-1>>

\* The token of the document form and the control character it stands for.
LINE_TOKEN == <<60, 76, 73, 78, 69, 62>>
CTRL_LINE == 1
REPLACEMENT_CHAR == 65533
QUESTION_MARK == 63

RECURSIVE FlattenRange(_, _, _)
\* The concatenation of parts[lo..hi], by halves.
FlattenRange(parts, lo, hi) ==
    IF lo > hi THEN <<>>
    ELSE IF lo = hi THEN parts[lo]
    ELSE LET mid == (lo + hi) \div 2 IN
         FlattenRange(parts, lo, mid) \o FlattenRange(parts, mid + 1, hi)

\* ''.join(parts) / b''.join(parts)
Flatten(parts) == FlattenRange(parts, 1, Len(parts))

RECURSIVE SumRange(_, _, _)
SumRange(nums, lo, hi) ==
    IF lo > hi THEN 0
    ELSE IF lo = hi THEN nums[lo]
    ELSE LET mid == (lo + hi) \div 2 IN
         SumRange(nums, lo, mid) + SumRange(nums, mid + 1, hi)

\* sum(nums)
Sum(nums) == SumRange(nums, 1, Len(nums))

\* Op applied to the value of v, which is evaluated once.
Bind(v, Op(_)) == CHOOSE r \in {Op(x) : x \in {v}} : TRUE

\* sum(len(part) for part in parts)
TotalLen(parts) == Sum([i \in 1..Len(parts) |-> Len(parts[i])])

\* Keys of the dictionary INCOMPATIBLE_CHARS_REPLACEMENTS.
IncompatibleKeys ==
    {160, 163, 165, 169, 171, 173, 174, 176, 183, 187, 215, 247,
     729, 768, 769, 770, 771, 772, 774, 775, 776, 778, 779, 780,
     803, 807, 808, 956, 1199, 8204, 8205, 8209, 8211, 8212, 8213, 8216,
     8217, 8218, 8220, 8221, 8222, 8226, 8230, 8242, 8243, 8249, 8250, 8260,
     8364, 8470, 8482, 8722, 8725, 65279}

INCOMPATIBLE_CHARS_REPLACEMENTS ==
    [c \in IncompatibleKeys |->
        CASE c = 173 -> <<>>
          [] c = 8209 -> <<45>>
          [] c = 8212 -> <<45>>
          [] c = 8211 -> <<45>>
          [] c = 8213 -> <<45>>
          [] c = 8216 -> <<39>>
          [] c = 8217 -> <<39>>
          [] c = 8220 -> <<34>>
          [] c = 8221 -> <<34>>
          [] c = 8230 -> <<46, 46, 46>>
          [] c = 8226 -> <<42>>
          [] c = 8242 -> <<39>>
          [] c = 8243 -> <<34>>
          [] c = 160 -> <<32>>
          [] c = 171 -> <<34>>
          [] c = 187 -> <<34>>
          [] c = 169 -> <<40, 99, 41>>
          [] c = 174 -> <<40, 114, 41>>
          [] c = 8482 -> <<40, 116, 109, 41>>
          [] c = 8364 -> <<69, 85, 82>>
          [] c = 163 -> <<71, 66, 80>>
          [] c = 165 -> <<74, 80, 89>>
          [] c = 8722 -> <<45>>
          [] c = 774 -> <<>>
          [] c = 776 -> <<>>
          [] c = 769 -> <<>>
          [] c = 768 -> <<>>
          [] c = 770 -> <<>>
          [] c = 771 -> <<>>
          [] c = 772 -> <<>>
          [] c = 775 -> <<>>
          [] c = 778 -> <<>>
          [] c = 779 -> <<>>
          [] c = 780 -> <<>>
          [] c = 807 -> <<>>
          [] c = 808 -> <<>>
          [] c = 803 -> <<>>
          [] c = 8470 -> <<35>>
          [] c = 1199 -> <<1091>>
          [] c = 8204 -> <<>>
          [] c = 8205 -> <<>>
          [] c = 65279 -> <<>>
          [] c = 8725 -> <<47>>
          [] c = 8260 -> <<47>>
          [] c = 183 -> <<46>>
          [] c = 729 -> <<46>>
          [] c = 8218 -> <<44>>
          [] c = 8222 -> <<34>>
          [] c = 8249 -> <<60>>
          [] c = 8250 -> <<62>>
          [] c = 176 -> <<176>>
          [] c = 247 -> <<47>>
          [] c = 215 -> <<120>>
          [] c = 956 -> <<956>>]

InRange(lo, c, hi) == lo <= c /\ c <= hi

get_replacement_for_extended_char(c) ==
    CASE c = 1199 -> <<1091>>
      [] c = 1025 -> <<1045>>
      [] c = 1105 -> <<1077>>
      [] c = 1030 -> <<1048>>
      [] c = 1110 -> <<1080>>
      [] c = 1031 -> <<1048>>
      [] c = 1111 -> <<1080>>
      [] c = 1028 -> <<1069>>
      [] c = 1108 -> <<1101>>
      [] c = 1168 -> <<1043>>
      [] c = 1169 -> <<1075>>
      [] c = 1038 -> <<1059>>
      [] c = 1118 -> <<1091>>
      [] c = 1240 -> <<1045>>
      [] c = 1241 -> <<1077>>
      [] c = 1186 -> <<1053>>
      [] c = 1187 -> <<1085>>
      [] c = 1170 -> <<1043>>
      [] c = 1171 -> <<1075>>
      [] c = 1200 -> <<1059>>
      [] c = 1201 -> <<1091>>
      [] c = 1198 -> <<1059>>
      [] c = 1178 -> <<1050>>
      [] c = 1179 -> <<1082>>
      [] c = 1256 -> <<1054>>
      [] c = 1257 -> <<1086>>
      [] c = 1210 -> <<1061>>
      [] c = 1211 -> <<1093>>
      [] InRange(192, c, 197) -> <<65>>
      [] InRange(224, c, 229) -> <<97>>
      [] c = 198 -> <<65, 69>>
      [] c = 230 -> <<97, 101>>
      [] c = 199 -> <<67>>
      [] c = 231 -> <<99>>
      [] InRange(200, c, 203) -> <<69>>
      [] InRange(232, c, 235) -> <<101>>
      [] InRange(204, c, 207) -> <<73>>
      [] InRange(236, c, 239) -> <<105>>
      [] c = 208 -> <<68>>
      [] c = 240 -> <<100>>
      [] c = 209 -> <<78>>
      [] c = 241 -> <<110>>
      [] InRange(210, c, 214) \/ c = 216 -> <<79>>
      [] InRange(242, c, 246) \/ c = 248 -> <<111>>
      [] InRange(217, c, 220) -> <<85>>
      [] InRange(249, c, 252) -> <<117>>
      [] c = 221 -> <<89>>
      [] c = 253 -> <<121>>
      [] c = 222 -> <<84, 104>>
      [] c = 254 -> <<116, 104>>
      [] c = 223 -> <<115, 115>>
      [] OTHER -> None

\* No table: every character is left to the codec's error handler.
ReplaceCharUnmapped(c) == <<c>>

\* The replacement of one character: the dictionary first, then the
\* extended rules, else the character itself.
ReplaceChar(c) ==
    IF c \in IncompatibleKeys
    THEN INCOMPATIBLE_CHARS_REPLACEMENTS[c]
    ELSE IF get_replacement_for_extended_char(c) # None
         THEN get_replacement_for_extended_char(c)
         ELSE <<c>>

replace_incompatible_chars(text) ==
    IF text = <<>> THEN text
    ELSE Flatten([i \in 1..Len(text) |-> ReplaceChar(text[i])])

(***************************************************************************)
(* The shift_jis codec of Python, on the repertoire the model draws from:  *)
(* ASCII, the Cyrillic row, the degree sign and the Greek mu encode to     *)
(* themselves (one byte) or to a lead and a trail byte; the other code     *)
(* points drawn (U+0100, U+20BD, U+FFFD, ...) are not in Shift_JIS.  The    *)
(* decoder is that of the codec for the bytes the model reads: bytes below *)
(* 0x80, bytes 0xA1..0xDF, the pairs of this repertoire, and a lead byte   *)
(* that no valid trail byte follows.                                       *)
(***************************************************************************)
TwoByteChars == (1040..1103) \cup {1025, 1105, 176, 956}

SjisTwoBytes(c) ==
    CASE c = 176 -> <<129, 139>>
      [] c = 956 -> <<131, 202>>
      [] c = 1025 -> <<132, 70>>
      [] c = 1105 -> <<132, 118>>
      [] InRange(1040, c, 1045) -> <<132, 64 + (c - 1040)>>
      [] InRange(1046, c, 1071) -> <<132, 71 + (c - 1046)>>
      [] InRange(1072, c, 1077) -> <<132, 112 + (c - 1072)>>
      [] InRange(1078, c, 1085) -> <<132, 119 + (c - 1078)>>
      [] InRange(1086, c, 1103) -> <<132, 128 + (c - 1086)>>

\* str.encode('shift_jis', errors='replace') of one character.
SjisEncodeChar(c) ==
    IF c < 128 THEN <<c>>
    ELSE IF c \in TwoByteChars THEN SjisTwoBytes(c)
    ELSE <<QUESTION_MARK>>

SjisEncode(text) ==
    Flatten([i \in 1..Len(text) |-> SjisEncodeChar(text[i])])

IsPair(b1, b2) == \E c \in TwoByteChars : SjisTwoBytes(c) = <<b1, b2>>

PairChar(b1, b2) == CHOOSE c \in TwoByteChars : SjisTwoBytes(c) = <<b1, b2>>

RECURSIVE SjisDecode(_)
\* bytes.decode('shift_jis', errors='replace'): an ASCII byte is itself, a
\* byte 0xA1..0xDF a half-width katakana, a lead byte with its trail byte
\* one character, and any other byte U+FFFD, after which decoding resumes
\* at the next byte.
SjisDecode(bytes) ==
    IF bytes = <<>> THEN <<>>
    ELSE LET b == Head(bytes) IN
         IF b < 128 THEN <<b>> \o SjisDecode(Tail(bytes))
         ELSE IF InRange(161, b, 223)
         THEN <<65216 + b>> \o SjisDecode(Tail(bytes))
         ELSE IF Len(bytes) >= 2 /\ IsPair(b, bytes[2])
         THEN <<PairChar(b, bytes[2])>> \o SjisDecode(Tail(Tail(bytes)))
         ELSE <<REPLACEMENT_CHAR>> \o SjisDecode(Tail(bytes))

IsPrefix(p, s) == Len(p) <= Len(s) /\ SubSeq(s, 1, Len(p)) = p

\* str.replace(old, new, 1): the first occurrence only.
ReplaceFirst(text, old, new) ==
    LET starts == {k \in 1..(Len(text) - Len(old) + 1) :
                      SubSeq(text, k, k + Len(old) - 1) = old}
    IN  IF starts = {} THEN text
        ELSE LET k == CHOOSE k \in starts : \A k2 \in starts : k <= k2 IN
             SubSeq(text, 1, k - 1) \o new
             \o SubSeq(text, k + Len(old), Len(text))

RECURSIVE ReplaceAll(_, _, _)
\* str.replace(old, new): every occurrence, leftmost first, not overlapping.
ReplaceAll(text, old, new) ==
    IF text = <<>> THEN <<>>
    ELSE IF IsPrefix(old, text)
    THEN new \o ReplaceAll(SubSeq(text, Len(old) + 1, Len(text)), old, new)
    ELSE <<Head(text)>> \o ReplaceAll(Tail(text), old, new)

encode_sjis_with_null(text) ==
    IF text = <<>> THEN <<0>>
    ELSE SjisEncode(replace_incompatible_chars(
             ReplaceAll(text, LINE_TOKEN, <<CTRL_LINE>>))) \o <<0>>

RECURSIVE FindEnd(_, _)
\* The scan for the terminator: the first offset end >= ptr with
\* data[end] = 0, or len(data).
FindEnd(data, end) ==
    IF end < Len(data) /\ data[end + 1] # 0 THEN FindEnd(data, end + 1)
    ELSE end

\* A string without a terminator read as absent.
read_cstring_sjis_terminated(data, ptr) ==
    IF ptr = 0 \/ ptr < 0 \/ ptr >= Len(data) THEN <<>>
    ELSE IF FindEnd(data, ptr) = Len(data) THEN <<>>
    ELSE ReplaceAll(SjisDecode(SubSeq(data, ptr + 1, FindEnd(data, ptr))),
                    <<CTRL_LINE>>, LINE_TOKEN)

read_cstring_sjis(data, ptr) ==
    IF ptr = 0 \/ ptr < 0 \/ ptr >= Len(data) THEN <<>>
    ELSE ReplaceAll(SjisDecode(SubSeq(data, ptr + 1, FindEnd(data, ptr))),
                    <<CTRL_LINE>>, LINE_TOKEN)

(***************************************************************************)
(* Documents.  An entry is a Python dict: a function from keys to values.  *)
(***************************************************************************)
\* entry.get(key, default)
Get(entry, key, default) == IF key \in DOMAIN entry THEN entry[key] ELSE default

\* entry[key] = value for every key of upd
SetKeys(entry, upd) == upd @@ entry

HeaderSize == ENTRY_COUNT * ENTRY_SIZE

\* struct.pack('<I', v)
Pack32(v) ==
    <<v % 256, (v \div 256) % 256, (v \div 65536) % 256, (v \div 16777216) % 256>>

\* struct.unpack('<I', data[o:o + 4])[0]
Unpack32(data, o) ==
    data[o + 1] + 256 * data[o + 2] + 65536 * data[o + 3] + 16777216 * data[o + 4]

(***************************************************************************)
(* compile_to_dt.  allocate(data) appends data to the body and returns the *)
(* cursor, which starts at the header size and advances by len(data): the  *)
(* offset of an allocation is the header size plus the lengths of all the  *)
(* allocations made before it.                                             *)
(***************************************************************************)
\* The three strings allocated for an entry by the first loop.
EntryStrings(entry) ==
    <<encode_sjis_with_null(Get(entry, "name", <<>>)),
      encode_sjis_with_null(Get(entry, "client", <<>>)),
      encode_sjis_with_null(Get(entry, "description", <<>>))>>

\* The strings allocated for the progress texts of an entry.
ProgressStrings(entry) ==
    LET progress == Get(entry, "progress", <<>>) IN
    [j \in 1..Len(progress) |-> encode_sjis_with_null(progress[j])]

RECURSIVE CursorsRange(_, _, _, _)
\* The cursor before each of the allocations lo..hi of the given lengths,
\* the cursor before allocation lo being base (by halves).
CursorsRange(lens, lo, hi, base) ==
    IF lo > hi THEN <<>>
    ELSE IF lo = hi THEN <<base>>
    ELSE LET mid == (lo + hi) \div 2 IN
         CursorsRange(lens, lo, mid, base)
         \o CursorsRange(lens, mid + 1, hi, base + SumRange(lens, lo, mid))

\* The cursor before each of a run of allocations of the given lengths
\* that starts at base, and (last) the cursor after the run.
Cursors(lens, base) ==
    CursorsRange(lens, 1, Len(lens), base) \o <<base + Sum(lens)>>

\* The pointer array with eight bytes per pointer (struct format '<Q').
ProgressArrayWide(ptrs) ==
    Flatten([j \in 1..Len(ptrs) |-> Pack32(ptrs[j]) \o <<0, 0, 0, 0>>])

\* b''.join(struct.pack('<I', ptr) for ptr in progress_ptrs)
ProgressArray(ptrs) == Flatten([j \in 1..Len(ptrs) |-> Pack32(ptrs[j])])

\* The body parts the second loop appends for an entry with the progress
\* strings pstrings when the cursor is at pstart: nothing for an empty
\* progress list, else the strings and then the array of their offsets.
ProgressBlock(pstrings, pstart) ==
    IF pstrings = <<>> THEN <<>>
    ELSE Flatten(pstrings)
         \o ProgressArray(SubSeq(
                Cursors([j \in 1..Len(pstrings) |-> Len(pstrings[j])], pstart),
                1, Len(pstrings)))

\* The keys set when the second loop does not skip an empty progress list
\* and allocates its (empty) pointer array.
EntryPtrsNoSkip(strings, pstrings, start, pstart) ==
    [_name_ptr |-> start,
     _client_ptr |-> start + Len(strings[1]),
     _desc_ptr |-> start + Len(strings[1]) + Len(strings[2]),
     _progress_ptr |-> pstart + TotalLen(pstrings)]

\* The keys the two loops set on an entry with the strings strings and the
\* progress strings pstrings, the first loop reaching it with the cursor
\* at start and the second with the cursor at pstart.
EntryPtrs(strings, pstrings, start, pstart) ==
    [_name_ptr |-> start,
     _client_ptr |-> start + Len(strings[1]),
     _desc_ptr |-> start + Len(strings[1]) + Len(strings[2]),
     _progress_ptr |-> IF pstrings = <<>> THEN 0
                       ELSE pstart + TotalLen(pstrings)]

\* The layout of the strings (per entry) and progress strings (per entry)
\* the two loops allocate: the keys set on every entry and the body.
LayoutOf(strings, pstrings) ==
    Bind(Cursors([k \in 1..Len(strings) |-> TotalLen(strings[k])], HeaderSize),
         LAMBDA start :
    Bind(Cursors([k \in 1..Len(strings) |->
                     Len(ProgressBlock(pstrings[k], 0))],
                 start[Len(strings) + 1]),
         LAMBDA pstart :
        [ptrs |-> [k \in 1..Len(strings) |->
                      EntryPtrs(strings[k], pstrings[k], start[k], pstart[k])],
         body |-> Flatten([k \in 1..Len(strings) |-> Flatten(strings[k])])
                  \o Flatten([k \in 1..Len(strings) |->
                                 ProgressBlock(pstrings[k], pstart[k])])]))

\* The two allocation loops on the entries es.  The first loop allocates
\* name, client and description of every entry; the second, for every entry
\* with a non-empty progress list, its progress strings and then its
\* pointer array, whose offset is '_progress_ptr' (0 for an empty list).
Layout(es) ==
    Bind([k \in 1..Len(es) |-> EntryStrings(es[k])], LAMBDA strings :
    Bind([k \in 1..Len(es) |-> ProgressStrings(es[k])], LAMBDA pstrings :
        LayoutOf(strings, pstrings)))

\* The value of the eight hexadecimal digits of a pointers block.
HexValue(digits) == Sum([i \in 1..8 |-> digits[i] * (16 ^ (8 - i))])

\* The 28 bytes of an entry when the reserved bytes are left as the zeros
\* of the new header.
RecordBytesNoReserved(entry) ==
    <<Get(entry, "counter", 0) % 256>> \o [i \in 1..11 |-> 0]
    \o Pack32(entry["_name_ptr"]) \o Pack32(entry["_client_ptr"])
    \o Pack32(entry["_desc_ptr"]) \o Pack32(entry["_progress_ptr"])

\* The 28 bytes of an entry when the name pointer is taken from the
\* pointers block of an entry that has one.
RecordBytesFromBlock(entry) ==
    LET reserved == Get(entry, "reserved", [i \in 1..11 |-> 0]) IN
    <<Get(entry, "counter", 0) % 256>>
    \o [i \in 1..11 |-> IF i <= Len(reserved) THEN reserved[i] ELSE 0]
    \o Pack32(IF "pointers" \in DOMAIN entry
              THEN HexValue(entry["pointers"]["name_ptr"])
              ELSE entry["_name_ptr"])
    \o Pack32(entry["_client_ptr"])
    \o Pack32(entry["_desc_ptr"]) \o Pack32(entry["_progress_ptr"])

\* The 28 bytes written for one entry: counter & 0xFF, the 11 reserved
\* bytes (0 where the list is shorter) and the four pointers.
RecordBytes(entry) ==
    LET reserved == Get(entry, "reserved", [i \in 1..11 |-> 0]) IN
    <<Get(entry, "counter", 0) % 256>>
    \o [i \in 1..11 |-> IF i <= Len(reserved) THEN reserved[i] ELSE 0]
    \o Pack32(entry["_name_ptr"]) \o Pack32(entry["_client_ptr"])
    \o Pack32(entry["_desc_ptr"]) \o Pack32(entry["_progress_ptr"])

\* The header loop raises IndexError at an entry whose offset
\* index * ENTRY_SIZE lies outside the bytearray.
HeaderError(es) ==
    IF \E k \in 1..Len(es) : es[k]["index"] * ENTRY_SIZE >= HeaderSize
    THEN "IndexError" ELSE "ok"

\* The header after the header loop, held as its ENTRY_COUNT records:
\* record r holds the bytes of the last entry of index r written there, or
\* the zeros of bytearray(header_size).
HeaderRecords(es) ==
    Bind([k \in 1..Len(es) |-> es[k]["index"]], LAMBDA index :
        [r \in 1..ENTRY_COUNT |->
            LET writers == {k \in 1..Len(es) : index[k] = r - 1} IN
            IF writers = {} THEN [i \in 1..ENTRY_SIZE |-> 0]
            ELSE RecordBytes(es[CHOOSE k \in writers :
                                    \A k2 \in writers : k2 <= k])])

\* compile_to_dt(output_path) on self.entries = es: the exception raised or
\* "ok", the entries as the call leaves them, and the bytes written.
compile_to_dt(es) ==
    IF es = <<>>
    THEN [err |-> "ValueError", entries |-> es, data |-> <<>>]
    ELSE Bind(Layout(es), LAMBDA layout :
         Bind([k \in 1..Len(es) |-> SetKeys(es[k], layout.ptrs[k])],
              LAMBDA allocated :
             [err |-> HeaderError(allocated),
              entries |-> allocated,
              data |-> IF HeaderError(allocated) = "ok"
                       THEN Flatten(HeaderRecords(allocated)) \o layout.body
                       ELSE <<>>]))

(***************************************************************************)
(* parse_dt_file                                                           *)
(***************************************************************************)
\* f"0x{v:08X}": the eight hexadecimal digits of v, most significant first.
Hex8(v) == [i \in 1..8 |-> (v \div (16 ^ (8 - i))) % 16]

\* ' '.join(f'{b:02x}' for b in reserved): the two digits of every byte.
ReservedHex(reserved) ==
    [i \in 1..Len(reserved) |-> <<reserved[i] \div 16, reserved[i] % 16>>]

\* Step 1: the header record idx.
ReadHeader(data, idx) ==
    LET offset == idx * ENTRY_SIZE IN
    [idx |-> idx,
     counter |-> data[offset + 1],
     reserved |-> SubSeq(data, offset + 2, offset + 12),
     name_ptr |-> Unpack32(data, offset + 12),
     client_ptr |-> Unpack32(data, offset + 16),
     description_ptr |-> Unpack32(data, offset + 20),
     progress_ptr |-> Unpack32(data, offset + 24)]

Headers(data) == [i \in 1..ENTRY_COUNT |-> ReadHeader(data, i - 1)]

\* The size taken to the end of the file for every record.
SizeBytesToEof(data, headers, i) ==
    LET this_ptr == headers[i + 1].progress_ptr IN
    IF this_ptr < Len(data) THEN Len(data) - this_ptr ELSE 0

\* Step 3: the size in bytes of the progress array of record i (0-based).
SizeBytes(data, headers, i) ==
    LET this_ptr == headers[i + 1].progress_ptr
        eof == IF this_ptr < Len(data) THEN Len(data) - this_ptr ELSE 0
    IN  IF i < ENTRY_COUNT - 1
        THEN LET next_ptr == headers[i + 2].progress_ptr IN
             IF next_ptr > this_ptr /\ next_ptr <= Len(data)
             THEN next_ptr - this_ptr
             ELSE eof
        ELSE eof

Max(a, b) == IF a >= b THEN a ELSE b

\* The loop over the count slots: slot j is read while it lies in the
\* data, and the loop stops at the first slot that does not.
ReadProgress(data, this_ptr, count) ==
    LET inData == {j \in 0..(count - 1) : this_ptr + j * 4 + 4 <= Len(data)} IN
    [j \in 1..Cardinality(inData) |->
        read_cstring_sjis(data, Unpack32(data, this_ptr + (j - 1) * 4))]

\* The progress list when a zero progress pointer is not skipped.
ProgressOfNoSkip(data, headers, i) ==
    ReadProgress(data, headers[i + 1].progress_ptr,
                 Max(0, SizeBytes(data, headers, i) \div 4))

ProgressOf(data, headers, i) ==
    IF headers[i + 1].progress_ptr = 0 THEN <<>>
    ELSE ReadProgress(data, headers[i + 1].progress_ptr,
                      Max(0, SizeBytes(data, headers, i) \div 4))

\* Steps 2 and 3: the entry of header record h.
DecodeEntry(data, headers, h) ==
    [index |-> h.idx,
     counter |-> h.counter,
     reserved |-> h.reserved,
     reserved_hex |-> ReservedHex(h.reserved),
     name |-> read_cstring_sjis(data, h.name_ptr),
     client |-> read_cstring_sjis(data, h.client_ptr),
     description |-> read_cstring_sjis(data, h.description_ptr),
     progress |-> ProgressOf(data, headers, h.idx),
     pointers |-> [name_ptr |-> Hex8(h.name_ptr),
                   client_ptr |-> Hex8(h.client_ptr),
                   description_ptr |-> Hex8(h.description_ptr),
                   progress_ptr |-> Hex8(h.progress_ptr)]]

\* parse_dt_file rejecting a file of exactly the header table's size.
parse_dt_file_strict(data) ==
    IF Len(data) <= ENTRY_COUNT * ENTRY_SIZE
    THEN [err |-> "ValueError", entries |-> <<>>]
    ELSE Bind(Headers(data), LAMBDA headers :
             [err |-> "ok",
              entries |-> [i \in 1..ENTRY_COUNT |->
                              DecodeEntry(data, headers, headers[i])]])

\* parse_dt_file(file_path) on a file holding data: the exception raised
\* or "ok", and the entries returned.
parse_dt_file(data) ==
    IF Len(data) < ENTRY_COUNT * ENTRY_SIZE
    THEN [err |-> "ValueError", entries |-> <<>>]
    ELSE Bind(Headers(data), LAMBDA headers :
             [err |-> "ok",
              entries |-> [i \in 1..ENTRY_COUNT |->
                              DecodeEntry(data, headers, headers[i])]])

(***************************************************************************)
(* The state: a QuestDTDecompiler object (entries, file_size), the two     *)
(* files it reads and writes, and the outcome of the last call.  The       *)
(* t_ variables are the state of the text transcoder run on one text.      *)
(***************************************************************************)
VARIABLES
    entries,        \* self.entries
    file_size,      \* self.file_size
    json_file,      \* the JSON document on disk: [metadata, quests]
    dt_file,        \* the bytes of the ._dt file on disk
    err,            \* "ok" or the exception the last call raised
    last,           \* the last method called
    ncompiles,      \* number of compile_to_dt calls so far
    compiled_from,  \* history: self.entries at the call that wrote dt_file
    t_text,         \* the text given to encode_sjis_with_null
    t_encoded,      \* its bytes
    t_decoded,      \* the text read back from these bytes
    t_reencoded,    \* the bytes of the text read back
    t_pc            \* position of the transcoder run

vars == <<entries, file_size, json_file, dt_file, err, last, ncompiles,
          compiled_from, t_text, t_encoded, t_decoded, t_reencoded, t_pc>>

codecVars == <<entries, file_size, json_file, dt_file, err, last, ncompiles,
               compiled_from>>

textVars == <<t_text, t_encoded, t_decoded, t_reencoded, t_pc>>

(***************************************************************************)
(* Inputs: documents and buffers.                                          *)
(***************************************************************************)
RECURSIVE SeqsUpTo(_, _)
\* The sequences of at most n elements of S.
SeqsUpTo(S, n) ==
    IF n = 0 THEN {<<>>}
    ELSE LET shorter == SeqsUpTo(S, n - 1) IN
         shorter \cup {Append(q, x) : q \in shorter, x \in S}

\* "a", "abc"
ProgTexts == {<<97>>, <<97, 98, 99>>}

ProgLists == SeqsUpTo(ProgTexts, MaxProg)

\* The progress lists of entries 1 and ENTRY_COUNT - 1: none, ["abc"] for
\* entry 1, ["a"] for the last entry.
LaterProgLists ==
    {<<<<>>, <<>>>>, <<<<<<97, 98, 99>>>>, <<>>>>, <<<<>>, <<<<97>>>>>>}

\* "Quest<LINE>Name", U+04AF followed by an em dash
DocTexts ==
    {<<81, 117, 101, 115, 116>> \o LINE_TOKEN \o <<78, 97, 109, 101>>,
     <<1199, 8212>>}

DocPointers == [name_ptr |-> Hex8(0), client_ptr |-> Hex8(2240),
                description_ptr |-> Hex8(4660), progress_ptr |-> Hex8(48879)]

\* The entry of index i of a document: the text t is the name of entry 0
\* and the description of entry 1, p0, p1 and pl are the progress lists of
\* entries 0, 1 and ENTRY_COUNT - 1.
DocEntry(i, t, p0, p1, pl, withPointers) ==
    LET reserved == [j \in 1..11 |-> (i + 16 * j) % 256]
        e == [index |-> i,
              counter |-> (3 * i + 1) % 256,
              reserved |-> reserved,
              reserved_hex |-> ReservedHex(reserved),
              name |-> IF i = 0 THEN t ELSE <<>>,
              client |-> IF i % 2 = 0 THEN <<>> ELSE <<99>>,
              description |-> IF i = 1 THEN t ELSE <<>>,
              progress |-> CASE i = 0 -> p0
                             [] i = 1 -> p1
                             [] i = ENTRY_COUNT - 1 -> pl
                             [] OTHER -> <<>>]
    IN  IF withPointers THEN SetKeys(e, [pointers |-> DocPointers]) ELSE e

Doc(n, t, p0, p1, pl, withPointers) ==
    [k \in 1..n |-> DocEntry(k - 1, t, p0, p1, pl, withPointers)]

Metadata(size) ==
    [format |-> "Trails from Zero Quest DT", encoding |-> "shift_jis",
     endianness |-> "little", entry_count |-> ENTRY_COUNT,
     entry_size |-> ENTRY_SIZE, file_size |-> size]

\* The document d with its first two entries listed in the other order.
SwapFirstTwo(d) ==
    [k \in 1..Len(d) |-> IF k = 1 THEN d[2] ELSE IF k = 2 THEN d[1] ELSE d[k]]

\* The choices of text and progress lists of the documents of ENTRY_COUNT
\* entries: "Quest<LINE>Name" with every choice of progress lists, the
\* other text with the progress ["a"] for entry 0 alone.
DocChoices ==
    {c \in DocTexts \X ProgLists \X LaterProgLists :
        \/ c[1][1] = 81
        \/ c[2] = <<<<97>>>> /\ c[3] = <<<<>>, <<>>>>}

\* Documents of ENTRY_COUNT entries, documents of another length, and a
\* document of ENTRY_COUNT entries that lists entry 1 before entry 0.
Docs ==
    {Doc(ENTRY_COUNT, c[1], c[2], c[3][1], c[3][2], FALSE) : c \in DocChoices}
    \cup {Doc(n, <<97>>, <<<<97>>>>, <<>>, <<>>, TRUE) :
        n \in {1, ENTRY_COUNT - 1, ENTRY_COUNT, ENTRY_COUNT + 1}}
    \cup {SwapFirstTwo(Doc(ENTRY_COUNT, <<97>>, <<<<97>>>>, <<>>, <<>>, FALSE))}

Zeros(n) == [i \in 1..n |-> 0]

\* Offsets used as pointer values in the input buffers: absent, into the
\* header, the end of a header-only buffer, and beyond it.
PtrPool == {0, ENTRY_SIZE, HeaderSize, HeaderSize + 100}

\* A buffer of HeaderSize bytes: record 0 has name pointer np and progress
\* pointer pp, record 1 has counter c.
HeaderOnly(np, pp, c) ==
    <<7>> \o Zeros(11) \o Pack32(np) \o Zeros(8) \o Pack32(pp)
    \o <<c>> \o Zeros(ENTRY_SIZE - 1)
    \o Zeros(HeaderSize - 2 * ENTRY_SIZE)

InputBuffers ==
    {Zeros(n) : n \in {0, 1, HeaderSize - 1}}
    \cup {HeaderOnly(np, pp, 65) : np \in PtrPool, pp \in PtrPool}

\* The body of the buffers that have one: two pointer slots, the first to
\* the text that follows them and the second outside the buffer, then the
\* text "AB" without a terminator.  Every four consecutive bytes of the
\* body are a value below 2^31, the largest the model's integers hold.
BodyBytes ==
    Pack32(HeaderSize + 8) \o Pack32(HeaderSize + 5000) \o <<65, 66>>

\* A buffer with the body BodyBytes: record 0 has name pointer np and
\* progress pointer p0, record 1 has progress pointer p1 and the last
\* record has progress pointer pl; every other pointer is 0.
WithBody(np, p0, p1, pl) ==
    <<7>> \o [j \in 1..11 |-> 16 * j] \o Pack32(np) \o Zeros(8) \o Pack32(p0)
    \o <<65>> \o Zeros(ENTRY_SIZE - 5) \o Pack32(p1)
    \o Zeros(HeaderSize - 3 * ENTRY_SIZE)
    \o <<255>> \o Zeros(ENTRY_SIZE - 5) \o Pack32(pl)
    \o BodyBytes

\* Name pointers: absent, the text of the body, the end of the buffer.
NamePtrPool == {0, HeaderSize + 8, HeaderSize + Len(BodyBytes)}

\* Progress pointers of record 0: absent, the first slot, an offset that
\* leaves a partial slot before the next array.
Progress0PtrPool == {0, HeaderSize, HeaderSize + 3}

\* Progress pointers of record 1: absent, the second slot, the text, and
\* an offset past the end of the buffer.
Progress1PtrPool ==
    {0, HeaderSize + 4, HeaderSize + 8, HeaderSize + Len(BodyBytes) + 1}

\* Progress pointers of the last record: absent, and an offset that
\* leaves a partial slot before the end of the buffer.
ProgressLastPtrPool == {0, HeaderSize + 1}

\* The name pointer to the text with every choice of progress pointers,
\* the other name pointers with one choice.
BodyChoices ==
    {c \in NamePtrPool \X Progress0PtrPool \X Progress1PtrPool
            \X ProgressLastPtrPool :
        \/ c[1] = HeaderSize + 8
        \/ c[2] = HeaderSize /\ c[3] = HeaderSize + 4 /\ c[4] = 0}

BodyBuffers == {WithBody(c[1], c[2], c[3], c[4]) : c \in BodyChoices}

TextIdle ==
    /\ t_text = <<>>
    /\ t_encoded = <<>>
    /\ t_decoded = <<>>
    /\ t_reencoded = <<>>
    /\ t_pc = "idle"

\* A new object, and on disk either a document to compile or a buffer to
\* parse.
Init ==
    /\ entries = <<>>
    /\ file_size = 0
    /\ \/ /\ json_file \in {[metadata |-> Metadata(0), quests |-> d] : d \in Docs}
          /\ dt_file = <<>>
       \/ /\ json_file = [metadata |-> Metadata(0), quests |-> <<>>]
          /\ dt_file \in InputBuffers
    /\ err = "ok"
    /\ last = "init"
    /\ ncompiles = 0
    /\ compiled_from = <<>>
    /\ TextIdle

\* from_json(json_path)
FromJson ==
    /\ entries' = json_file.quests
    /\ err' = "ok"
    /\ last' = "from_json"
    /\ UNCHANGED <<file_size, json_file, dt_file, ncompiles, compiled_from>>
    /\ UNCHANGED textVars

\* compile_to_dt(output_path): the file is written only when no exception
\* was raised; the entries keep the keys the allocation gave them.
CompileToDt ==
    /\ ncompiles < MaxCompiles
    /\ LET r == compile_to_dt(entries) IN
        /\ entries' = r.entries
        /\ err' = r.err
        /\ dt_file' = IF r.err = "ok" THEN r.data ELSE dt_file
        /\ compiled_from' = IF r.err = "ok" THEN entries ELSE compiled_from
    /\ ncompiles' = ncompiles + 1
    /\ last' = "compile_to_dt"
    /\ UNCHANGED <<file_size, json_file>>
    /\ UNCHANGED textVars

\* parse_dt_file(file_path): file_size is set before the length check.
ParseDtFile ==
    /\ LET r == parse_dt_file(dt_file) IN
        /\ entries' = IF r.err = "ok" THEN r.entries ELSE entries
        /\ err' = r.err
    /\ file_size' = Len(dt_file)
    /\ last' = "parse_dt_file"
    /\ UNCHANGED <<json_file, dt_file, ncompiles, compiled_from>>
    /\ UNCHANGED textVars

Next ==
    \/ FromJson
    \/ CompileToDt
    \/ ParseDtFile

Spec == Init /\ [][Next]_vars

\* A new object, and on disk a buffer with a body to parse.
InitDecode ==
    /\ entries = <<>>
    /\ file_size = 0
    /\ json_file = [metadata |-> Metadata(0), quests |-> <<>>]
    /\ dt_file \in BodyBuffers
    /\ err = "ok"
    /\ last = "init"
    /\ ncompiles = 0
    /\ compiled_from = <<>>
    /\ TextIdle

SpecDecode == InitDecode /\ [][Next]_vars

(***************************************************************************)
(* The text transcoder on one text: encode, read back, encode again.       *)
(***************************************************************************)
\* "<LINE>", "<", "LINE", ">", U+2039, U+203A, "Quest", "Name", an em dash,
\* U+04AF, U+20BD, the control character, "?"
Fragments ==
    {LINE_TOKEN, <<60>>, <<76, 73, 78, 69>>, <<62>>, <<8249>>, <<8250>>,
     <<81, 117, 101, 115, 116>>, <<78, 97, 109, 101>>, <<8212>>, <<1199>>,
     <<8381>>, <<CTRL_LINE>>, <<QUESTION_MARK>>}

\* The texts made of at most MaxFrags fragments.
Texts == {Flatten(fs) : fs \in SeqsUpTo(Fragments, MaxFrags)}

\* The bytes before the terminator, read as read_cstring_sjis reads a
\* string that starts at a non-zero offset.
DecodeText(bytes) == read_cstring_sjis(<<0>> \o bytes, 1)

InitText ==
    /\ entries = <<>>
    /\ file_size = 0
    /\ json_file = [metadata |-> Metadata(0), quests |-> <<>>]
    /\ dt_file = <<>>
    /\ err = "ok"
    /\ last = "init"
    /\ ncompiles = 0
    /\ compiled_from = <<>>
    /\ t_text \in Texts
    /\ t_encoded = <<>>
    /\ t_decoded = <<>>
    /\ t_reencoded = <<>>
    /\ t_pc = "input"

EncodeText ==
    /\ t_pc = "input"
    /\ t_encoded' = encode_sjis_with_null(t_text)
    /\ t_pc' = "encoded"
    /\ UNCHANGED <<t_text, t_decoded, t_reencoded>>
    /\ UNCHANGED codecVars

ReadText ==
    /\ t_pc = "encoded"
    /\ t_decoded' = DecodeText(t_encoded)
    /\ t_pc' = "decoded"
    /\ UNCHANGED <<t_text, t_encoded, t_reencoded>>
    /\ UNCHANGED codecVars

ReencodeText ==
    /\ t_pc = "decoded"
    /\ t_reencoded' = encode_sjis_with_null(t_decoded)
    /\ t_pc' = "reencoded"
    /\ UNCHANGED <<t_text, t_encoded, t_decoded>>
    /\ UNCHANGED codecVars

NextText ==
    \/ EncodeText
    \/ ReadText
    \/ ReencodeText

SpecText == InitText /\ [][NextText]_vars

(***************************************************************************)
(* Properties of the codec (specification Spec).                           *)
(***************************************************************************)
\* A text the encoding represents: reading its encoding back gives it.
Representable(t) == DecodeText(encode_sjis_with_null(t)) = t

\* A document of ENTRY_COUNT entries in index order, with byte-sized counter
\* and reserved values and representable texts.
IsValidDocument(d) ==
    /\ Len(d) = ENTRY_COUNT
    /\ \A k \in 1..Len(d) :
        /\ d[k]["index"] = k - 1
        /\ d[k]["counter"] \in 0..255
        /\ Len(d[k]["reserved"]) = 11
        /\ \A i \in 1..11 : d[k]["reserved"][i] \in 0..255
        /\ Representable(d[k]["name"])
        /\ Representable(d[k]["client"])
        /\ Representable(d[k]["description"])
        /\ \A j \in 1..Len(d[k]["progress"]) : Representable(d[k]["progress"][j])

\* The fields of an entry other than the diagnostic ones.
ContentKeys ==
    {"index", "counter", "reserved", "name", "client", "description", "progress"}

\* The entries were read from the file that compile_to_dt wrote for the
\* valid document compiled_from.
DecodedCompiled ==
    /\ last = "parse_dt_file"
    /\ err = "ok"
    /\ IsValidDocument(compiled_from)

\* C1: decoding the bytes encoded from a valid document of ENTRY_COUNT
\* entries yields, for every entry, the same index, counter, reserved, name,
\* client, description and progress as in the document.
RoundTrip ==
    DecodedCompiled =>
        \A k \in 1..ENTRY_COUNT : \A key \in ContentKeys :
            entries[k][key] = compiled_from[k][key]

\* C2: on decoding the encoder's output, for every entry with a non-empty
\* progress list the element count the decoder infers (extent \div 4) is
\* the number of progress strings of the entry, and slot j of the array
\* dereferences to progress string j.
ExtentInference ==
    DecodedCompiled =>
        \A headers \in {Headers(dt_file)} : \A k \in 1..ENTRY_COUNT :
            LET progress == compiled_from[k]["progress"] IN
            progress # <<>> =>
                /\ Max(0, SizeBytes(dt_file, headers, k - 1) \div 4) = Len(progress)
                /\ \A j \in 1..Len(progress) :
                      read_cstring_sjis(dt_file,
                          Unpack32(dt_file, headers[k].progress_ptr + 4 * (j - 1)))
                      = progress[j]

\* The byte length of a text after <LINE> replacement, substitution and
\* encoding, without the terminator.
EncodedLen(t) == Len(encode_sjis_with_null(t)) - 1

\* The size the allocations of one entry add to the file.
ExpectedEntrySize(entry) ==
    (EncodedLen(entry["name"]) + 1) + (EncodedLen(entry["client"]) + 1)
    + (EncodedLen(entry["description"]) + 1)
    + Sum([j \in 1..Len(entry["progress"]) |-> EncodedLen(entry["progress"][j]) + 1])
    + (IF entry["progress"] # <<>> THEN 4 * Len(entry["progress"]) ELSE 0)

\* C3: the file written for a document of ENTRY_COUNT entries has
\* ENTRY_COUNT * 28 bytes plus, for every entry, the encoded length + 1 of
\* name, client, description and every progress string, plus 4 bytes per
\* progress string of every entry with a non-empty progress list.
SizeDeterminism ==
    Len(compiled_from) = ENTRY_COUNT =>
        Len(dt_file) = ENTRY_COUNT * 28
                       + Sum([k \in 1..ENTRY_COUNT |->
                                 ExpectedEntrySize(compiled_from[k])])

\* A document of ENTRY_COUNT entries with a text that holds <LINE> and a
\* substituted character, and progress lists of one and of two strings,
\* has been compiled.
SizeDeterminismWitness ==
    /\ last = "compile_to_dt"
    /\ err = "ok"
    /\ Len(compiled_from) = ENTRY_COUNT
    /\ \E k \in 1..ENTRY_COUNT : Len(compiled_from[k]["progress"]) = 2
    /\ \E k \in 1..ENTRY_COUNT : Len(compiled_from[k]["progress"]) = 1
    /\ \E k \in 1..ENTRY_COUNT :
          EncodedLen(compiled_from[k]["name"]) \notin {0, Len(compiled_from[k]["name"])}

\* C4: compile_to_dt fails with a validation error (ValueError) whenever the
\* number of entries is not ENTRY_COUNT.
EntryCountValidated ==
    (last = "compile_to_dt" /\ Len(entries) # ENTRY_COUNT) => err = "ValueError"

\* C6: every entry with an empty progress list is written with progress
\* pointer 0 in its header record, and the entry read back from the file
\* has an empty progress list, whatever the other entries' lists are.
EmptyProgress ==
    \A k \in 1..Len(compiled_from) :
        compiled_from[k]["progress"] = <<>> =>
            /\ Unpack32(dt_file, compiled_from[k]["index"] * ENTRY_SIZE + 24) = 0
            /\ (last = "parse_dt_file" /\ err = "ok") =>
                   entries[compiled_from[k]["index"] + 1]["progress"] = <<>>

\* The file of a document with empty and non-empty progress lists has been
\* read back, and an entry read back has progress.
EmptyProgressWitness ==
    /\ last = "parse_dt_file"
    /\ err = "ok"
    /\ \E k \in 1..Len(compiled_from) : compiled_from[k]["progress"] = <<>>
    /\ \E k \in 1..Len(compiled_from) : compiled_from[k]["progress"] # <<>>
    /\ \E k \in 1..Len(entries) : entries[k]["progress"] # <<>>

\* Every name, client, description and progress of the entries is empty.
AllEmpty ==
    \A k \in 1..Len(entries) :
        /\ entries[k]["name"] = <<>>
        /\ entries[k]["client"] = <<>>
        /\ entries[k]["description"] = <<>>
        /\ entries[k]["progress"] = <<>>

\* C7 as stated: decoding any buffer of exactly ENTRY_COUNT * 28 bytes
\* succeeds and yields ENTRY_COUNT entries with empty name, client,
\* description and progress.
HeaderOnlyAllEmpty ==
    (last = "parse_dt_file" /\ Len(dt_file) = ENTRY_COUNT * 28) =>
        /\ err = "ok"
        /\ Len(entries) = ENTRY_COUNT
        /\ AllEmpty

\* Every pointer field of the header of data is 0 or an offset at or after
\* the end of the header table.
PointersOutsideHeader(data) ==
    \A idx \in 0..(ENTRY_COUNT - 1) : \A field \in {12, 16, 20, 24} :
        LET ptr == Unpack32(data, idx * ENTRY_SIZE + field) IN
        ptr = 0 \/ ptr >= ENTRY_COUNT * ENTRY_SIZE

\* C7, amended: decoding a buffer of exactly ENTRY_COUNT * 28 bytes whose
\* pointer fields are each 0 or at least ENTRY_COUNT * 28 succeeds and
\* yields ENTRY_COUNT entries with empty name, client, description and
\* progress.
HeaderOnlyAbsentAllEmpty ==
    (/\ last = "parse_dt_file"
     /\ Len(dt_file) = ENTRY_COUNT * 28
     /\ PointersOutsideHeader(dt_file)) =>
        /\ err = "ok"
        /\ Len(entries) = ENTRY_COUNT
        /\ AllEmpty

\* A header-only buffer with a name pointer at its end and a progress
\* pointer beyond it has been decoded.
HeaderOnlyWitness ==
    /\ last = "parse_dt_file"
    /\ err = "ok"
    /\ Len(dt_file) = ENTRY_COUNT * 28
    /\ PointersOutsideHeader(dt_file)
    /\ Unpack32(dt_file, 12) = Len(dt_file)
    /\ Unpack32(dt_file, 24) > Len(dt_file)

\* C8: parse_dt_file fails with the format error (ValueError) for every
\* buffer shorter than ENTRY_COUNT * 28 = 2240 bytes and for no buffer of
\* 2240 bytes or more.
FormatErrorIffShort ==
    last = "parse_dt_file" => (err = "ValueError" <=> Len(dt_file) < 2240)

\* A buffer one byte short of the header table has been rejected.
FormatErrorWitness ==
    /\ last = "parse_dt_file"
    /\ err = "ValueError"
    /\ Len(dt_file) = 2239

\* The document d with the pointers block of every entry removed (block =
\* <<>>) or replaced by block.
WithPointers(d, block) ==
    [k \in 1..Len(d) |->
        IF block = <<>>
        THEN [key \in DOMAIN d[k] \ {"pointers"} |-> d[k][key]]
        ELSE SetKeys(d[k], [pointers |-> block])]

\* Pointers blocks a document may carry.
PointerBlocks ==
    {<<>>, DocPointers,
     [name_ptr |-> Hex8(2240), client_ptr |-> Hex8(2241),
      description_ptr |-> Hex8(2242), progress_ptr |-> Hex8(0)]}

\* C9: the file written for a document is the file written for the same
\* document without pointers blocks or with any other pointers blocks.
PointersIgnored ==
    (last = "compile_to_dt" /\ err = "ok") =>
        \A block \in PointerBlocks :
            \A other \in {WithPointers(compiled_from, block)} :
                compile_to_dt(other).data = dt_file

\* A document whose entries carry a pointers block has been compiled, the
\* block naming other offsets than the ones written.
PointersIgnoredWitness ==
    /\ last = "compile_to_dt"
    /\ err = "ok"
    /\ \E k \in 1..Len(compiled_from) :
          /\ "pointers" \in DOMAIN compiled_from[k]
          /\ compiled_from[k]["pointers"]["name_ptr"]
                 # Hex8(Unpack32(dt_file, compiled_from[k]["index"] * ENTRY_SIZE + 12))

(***************************************************************************)
(* Properties of the text transcoder (specification SpecText).             *)
(***************************************************************************)
\* C5: encoding the text read back from the encoding of a text gives the
\* same bytes as encoding the text.
SubstitutionIdempotent ==
    t_pc = "reencoded" => t_reencoded = t_encoded

\* The bytes of an encoded string before its terminator.
BeforeTerminator(bytes) == SubSeq(bytes, 1, Len(bytes) - 1)

\* "Quest<LINE>Name"
QuestLineName == <<81, 117, 101, 115, 116>> \o LINE_TOKEN \o <<78, 97, 109, 101>>

\* C10: every occurrence of <LINE> in a text is encoded as the single byte
\* 0x01 between the encodings of the text before and after it, and reading
\* the bytes back yields <LINE> between the texts read back from these.
\* "Quest<LINE>Name" is read back as itself.
LineSentinel ==
    t_pc = "decoded" =>
        /\ \A k \in 1..(Len(t_text) - 5) :
              SubSeq(t_text, k, k + 5) = LINE_TOKEN =>
                  LET before == SubSeq(t_text, 1, k - 1)
                      after == SubSeq(t_text, k + 6, Len(t_text))
                  IN  /\ t_encoded =
                             BeforeTerminator(encode_sjis_with_null(before))
                             \o <<1>> \o encode_sjis_with_null(after)
                      /\ t_decoded =
                             DecodeText(encode_sjis_with_null(before))
                             \o LINE_TOKEN
                             \o DecodeText(encode_sjis_with_null(after))
        /\ t_text = QuestLineName =>
              /\ t_encoded = <<81, 117, 101, 115, 116, 1, 78, 97, 109, 101, 0>>
              /\ t_decoded = QuestLineName

\* "Quest<LINE>Name" has been encoded and read back.
LineSentinelWitness ==
    /\ t_pc = "decoded"
    /\ t_text = QuestLineName
    /\ t_decoded = QuestLineName

\* The character has an entry in the substitution table: a key of the
\* dictionary, or a character an extended rule names.
HasTableEntry(c) ==
    c \in IncompatibleKeys \/ get_replacement_for_extended_char(c) # None

\* The replacement the table gives, the dictionary before the rules.
TableEntry(c) ==
    IF c \in IncompatibleKeys THEN INCOMPATIBLE_CHARS_REPLACEMENTS[c]
    ELSE get_replacement_for_extended_char(c)

\* C11: every character of a text that has an entry in the substitution
\* table is encoded as the encoding of the entry's replacement, between the
\* encodings of the text before and after it; an em dash (U+2014) is
\* encoded as the byte 0x2D, not as the replacement marker "?".
TableBeforeFallback ==
    t_pc = "encoded" =>
        \A k \in 1..Len(t_text) :
            LET before == SubSeq(t_text, 1, k - 1)
                after == SubSeq(t_text, k + 1, Len(t_text))
            IN  /\ HasTableEntry(t_text[k]) =>
                       t_encoded =
                           BeforeTerminator(encode_sjis_with_null(before))
                           \o SjisEncode(TableEntry(t_text[k]))
                           \o encode_sjis_with_null(after)
                /\ t_text[k] = 8212 =>
                       t_encoded =
                           BeforeTerminator(encode_sjis_with_null(before))
                           \o <<45>> \o encode_sjis_with_null(after)

\* A text with an em dash and with U+04AF, which an extended rule names,
\* has been encoded, and the hyphen byte is in the encoding.
TableBeforeFallbackWitness ==
    /\ t_pc = "encoded"
    /\ \E k \in 1..Len(t_text) : t_text[k] = 8212
    /\ \E k \in 1..Len(t_text) : t_text[k] = 1199
    /\ \E k \in 1..Len(t_encoded) : t_encoded[k] = 45

(***************************************************************************)
(* Properties of the decoder on buffers with a body (specification         *)
(* SpecDecode).                                                            *)
(***************************************************************************)
\* The progress pointer field of record i (0-based) of data.
ProgressPtrField(data, i) == Unpack32(data, i * 28 + 24)

\* The extent of the progress array of record i: the distance to the next
\* record's progress pointer when that is greater and within the data,
\* otherwise the bytes from the pointer to the end of the data.
Extent(data, i) ==
    LET p == ProgressPtrField(data, i)
        toEnd == IF p >= Len(data) THEN 0 ELSE Len(data) - p
    IN  IF i < ENTRY_COUNT - 1
           /\ ProgressPtrField(data, i + 1) > p
           /\ ProgressPtrField(data, i + 1) <= Len(data)
        THEN ProgressPtrField(data, i + 1) - p
        ELSE toEnd

\* C12: in the entries decoded from a buffer, a record with progress
\* pointer 0 has no progress; a record with progress pointer p # 0 has
\* extent \div 4 progress elements, the extent being the distance to the
\* next record's progress pointer when that is greater than p and at most
\* the buffer's length and else the bytes from p to the buffer's end, and
\* element j is the string at the pointer stored at p + 4 * j.
ProgressExtent ==
    (last = "parse_dt_file" /\ err = "ok") =>
        \A i \in 0..(ENTRY_COUNT - 1) :
            \A p \in {ProgressPtrField(dt_file, i)} :
                LET progress == entries[i + 1]["progress"] IN
                IF p = 0 THEN progress = <<>>
                ELSE /\ Len(progress) = Extent(dt_file, i) \div 4
                     /\ \A j \in 0..(Len(progress) - 1) :
                           progress[j + 1] =
                               read_cstring_sjis(dt_file,
                                                 Unpack32(dt_file, p + 4 * j))

\* A buffer has been decoded in which record 0 has an extent of 5 bytes up
\* to the progress pointer of record 1 and one progress element, and the
\* last record an extent of 9 bytes up to the end and two elements.
ProgressExtentWitness ==
    /\ last = "parse_dt_file"
    /\ err = "ok"
    /\ ProgressPtrField(dt_file, 1) - ProgressPtrField(dt_file, 0) = 5
    /\ Len(entries[1]["progress"]) = 1
    /\ Len(dt_file) - ProgressPtrField(dt_file, ENTRY_COUNT - 1) = 9
    /\ Len(entries[ENTRY_COUNT]["progress"]) = 2

(***************************************************************************)
(* Properties of the encoder's layout (specification Spec).                *)
(***************************************************************************)
\* The entries have the distinct indices 0..ENTRY_COUNT - 1.
DistinctIndices(d) ==
    /\ Len(d) = ENTRY_COUNT
    /\ {d[k]["index"] : k \in 1..Len(d)} = 0..(ENTRY_COUNT - 1)

\* The name, client, description and progress pointers of record i of data.
PtrFields(data, i) ==
    [f \in {12, 16, 20, 24} |-> Unpack32(data, i * ENTRY_SIZE + f)]

\* The offsets stored in the progress arrays of the file written for d.
ProgressStringOffsets(data, d) ==
    UNION {{Unpack32(data, Unpack32(data, d[k]["index"] * ENTRY_SIZE + 24) + 4 * (j - 1)) :
               j \in 1..Len(d[k]["progress"])} : k \in 1..Len(d)}

\* C13: in the file written for a document of ENTRY_COUNT entries with the
\* distinct indices 0..ENTRY_COUNT - 1, every record has name pointer <
\* client pointer < description pointer, the description pointer of record
\* i is below the name pointer of record j for i < j, these pointers are
\* all at least ENTRY_COUNT * 28, and each is below every progress string
\* offset and every non-zero progress pointer.
LayoutOrder ==
    (last = "compile_to_dt" /\ err = "ok" /\ DistinctIndices(compiled_from)) =>
        \A ptrs \in {[i \in 0..(ENTRY_COUNT - 1) |-> PtrFields(dt_file, i)]} :
        \A later \in {ProgressStringOffsets(dt_file, compiled_from)
                      \cup ({ptrs[i][24] : i \in 0..(ENTRY_COUNT - 1)} \ {0})} :
            /\ \A i \in 0..(ENTRY_COUNT - 1) :
                  /\ ptrs[i][12] >= ENTRY_COUNT * 28
                  /\ ptrs[i][12] < ptrs[i][16]
                  /\ ptrs[i][16] < ptrs[i][20]
                  /\ \A o \in later : ptrs[i][20] < o
            /\ \A i \in 0..(ENTRY_COUNT - 1) : \A j \in (i + 1)..(ENTRY_COUNT - 1) :
                  ptrs[i][20] < ptrs[j][12]

\* The text the pointer q resolves to in data is as stated: empty when q
\* is 0 or not below the length of data, and the bytes from q to the end of
\* data, decoded, when none of them is zero.
ResolvesPermissively(data, q, text) ==
    /\ (q = 0 \/ q >= Len(data)) => text = <<>>
    /\ (q # 0 /\ q < Len(data) /\ \A o \in (q + 1)..Len(data) : data[o] # 0) =>
           text = ReplaceAll(SjisDecode(SubSeq(data, q + 1, Len(data))),
                             <<CTRL_LINE>>, LINE_TOKEN)

\* C14: parse_dt_file raises no error on a buffer of at least ENTRY_COUNT *
\* 28 bytes; a name, client, description or progress slot pointer that is 0
\* or at least the buffer's length gives an empty text, and a string with
\* no zero byte before the end of the buffer is read up to that end.
PermissiveResolution ==
    (last = "parse_dt_file" /\ Len(dt_file) >= ENTRY_COUNT * 28) =>
        /\ err = "ok"
        /\ Len(entries) = ENTRY_COUNT
        /\ \A i \in 0..(ENTRY_COUNT - 1) :
            \A ptrs \in {PtrFields(dt_file, i)} :
              /\ ResolvesPermissively(dt_file, ptrs[12], entries[i + 1]["name"])
              /\ ResolvesPermissively(dt_file, ptrs[16], entries[i + 1]["client"])
              /\ ResolvesPermissively(dt_file, ptrs[20], entries[i + 1]["description"])
              /\ \A j \in 1..Len(entries[i + 1]["progress"]) :
                    ResolvesPermissively(dt_file,
                        Unpack32(dt_file, ptrs[24] + 4 * (j - 1)),
                        entries[i + 1]["progress"][j])

\* A buffer has been decoded whose record 0 has a name pointer to the
\* unterminated text "AB" at the end of the buffer and two progress slots,
\* the second of them with a pointer outside the buffer.
PermissiveResolutionWitness ==
    /\ last = "parse_dt_file"
    /\ err = "ok"
    /\ Unpack32(dt_file, 12) = Len(dt_file) - 2
    /\ entries[1]["name"] = <<65, 66>>
    /\ Len(entries[1]["progress"]) = 2
    /\ Unpack32(dt_file, Unpack32(dt_file, 24) + 4) > Len(dt_file)
    /\ entries[1]["progress"][2] = <<>>

\* C15: compile_to_dt called on the entries decoded from a buffer raises
\* no error and writes, for every record i, the counter byte at offset
\* 28 * i and the 11 reserved bytes at offsets 28 * i + 1 .. 28 * i + 11 of
\* the buffer, the entry decoded from record i carrying the index i.
OpaquePassthrough ==
    [][(last = "parse_dt_file" /\ err = "ok" /\ last' = "compile_to_dt") =>
          /\ err' = "ok"
          /\ \A k \in 1..ENTRY_COUNT : entries[k]["index"] = k - 1
          /\ \A i \in 0..(ENTRY_COUNT - 1) : \A o \in 1..12 :
                dt_file'[28 * i + o] = dt_file[28 * i + o]]_vars

\* The entries decoded from a buffer with the counters 7, 65 and 255 and
\* non-zero reserved bytes have been compiled into a file with these
\* counters and reserved bytes.
OpaquePassthroughWitness ==
    /\ last = "compile_to_dt"
    /\ err = "ok"
    /\ ncompiles = 1
    /\ Len(compiled_from) = ENTRY_COUNT
    /\ "pointers" \in DOMAIN compiled_from[1]
    /\ compiled_from[1]["counter"] = 7
    /\ dt_file[1] = 7
    /\ dt_file[29] = 65
    /\ dt_file[28 * (ENTRY_COUNT - 1) + 1] = 255
    /\ SubSeq(dt_file, 2, 12) = [j \in 1..11 |-> 16 * j]

(***************************************************************************)
(* Properties of compile_to_dt as a function of the document               *)
(* (specification Spec).                                                   *)
(***************************************************************************)
\* C16: a call of compile_to_dt that returns leaves every entry of the
\* loaded document with the keys and values it had before the call.
EncodeLeavesDocument ==
    [][(last' = "compile_to_dt" /\ err' = "ok") => entries' = entries]_vars

====
